---- MODULE Spec2Model ----
(***************************************************************************)
(* Model of blink_led/bak_code/socket_connection.rs: the WiFi association  *)
(* task (connection_task), the network-stack pump (net_task) and the main  *)
(* flow (link readiness gate followed by the HTTP request/response loop).  *)
(*                                                                         *)
(* The executor is single-threaded and cooperative: every action below is  *)
(* a piece of straight-line code of one task, and the tasks interleave at  *)
(* the granularity of these pieces.  Calls into the radio driver, the IP   *)
(* stack and the TCP socket return one of their possible outcomes, chosen  *)
(* with \E.  A panic (unwrap on Err) is handled by panic_rtt_target, which *)
(* never returns: the whole firmware halts.                                *)
(***************************************************************************)
EXTENDS Integers, Sequences, FiniteSets, TLC

VARIABLES
    \* radio driver (esp_radio WifiController), owned by connection_task
    started,        \* the radio reports started (is_started() = Ok(true))
    connected,      \* the station is associated (is_connected() = Ok(true))
    \* connection_task
    cpc,            \* position of connection_task
    assoc,          \* association state announced by the task's last log line
    ctimer,         \* milliseconds of the Timer the task is suspended on (0: none)
    \* net_task and the embassy_net stack it drives
    npc,            \* position of net_task
    link_up,        \* stack.is_link_up()
    ip,             \* stack.config_v4() is Some
    \* main
    mpc,            \* position of main
    mtimer,         \* milliseconds of the Timer main is suspended on (0: none)
    sawLink,        \* main has observed is_link_up() = true
    sawAddr,        \* main has observed config_v4() = Some
    sampledBoth,    \* at some poll of the gate, link-up and address both held
    live,           \* number of TcpSocket values alive (bound to RX/TX_BUFFER)
    sock,           \* state of the socket of the current iteration
    iter,           \* tag of the current iteration (counted modulo MaxIter)
    total_read,     \* total_read
    rx_pos,         \* bytes of the server's stream the socket has handed to read()
    buf,            \* buf: [u8; 1024], run-length encoded by origin of each byte
    outcome,        \* result of the last socket call that ended a phase of the loop
    reported,       \* the byte range printed as the response in this iteration
    \* wifi/src/scanner.rs: wifi_scanner and wifi_scan_task
    wpc,            \* position of wifi_scanner
    wlog,           \* the steps of wifi_scanner that have succeeded, in order
    wresult,        \* what wifi_scanner returned ("none" until it returns)
    tpc,            \* position of wifi_scan_task
    scan_results,   \* scan_results: the signal strength of each network found
    printed         \* networks of scan_results printed so far

radioVars == <<started, connected>>
assocVars == <<cpc, assoc, ctimer>>
netVars   == <<npc, link_up, ip>>
gateVars  == <<sawLink, sawAddr, sampledBoth>>
sockVars  == <<live, sock>>
readVars  == <<iter, total_read, rx_pos, buf, outcome, reported>>
mainVars  == <<mpc, mtimer>>
scanVars  == <<wpc, wlog, wresult, tpc, scan_results, printed>>
fwVars == <<started, connected, cpc, assoc, ctimer, npc, link_up, ip, mpc, mtimer,
            sawLink, sawAddr, sampledBoth, live, sock, iter, total_read, rx_pos,
            buf, outcome, reported>>
vars == <<fwVars, scanVars>>

----------------------------------------------------------------------------
\* Program constants

\* let mut buf = [0u8; 1024]
BufLen == 1024
\* Timer::after(Duration::from_millis(5000)) after a failed connect_async
AssocBackoffMs == 5000
\* Timer::after(Duration::from_millis(1000)) in the connected-polling loop
PollMs == 1000
\* Timer::after(Duration::from_millis(500)) in both loops of the gate
GateMs == 500
\* Timer::after(Duration::from_secs(5)) after a failed connect or write
RetryMs == 5000
\* Timer::after(Duration::from_secs(10)) at the end of an iteration
NextRequestMs == 10000

\* Bounds of the model

\* iterations are tagged 1..MaxIter, cyclically
MaxIter == 2
\* size of the segments a server's response arrives in (specification Spec)
ChunkLen == 400
\* networks a scan finds at most
MaxNets == 3

----------------------------------------------------------------------------
\* buf as runs <<[tag |-> t, pos |-> p, len |-> n], ...>>: n consecutive bytes of
\* origin t.  Origin 0 is the zero the array is initialised with (pos is 0);
\* origin i > 0 is a byte received from the server in the iteration tagged i,
\* and the run holds the bytes p .. p + n - 1 of that iteration's stream.

RECURSIVE RunsLen(_)
RunsLen(runs) ==
    IF runs = <<>> THEN 0 ELSE Head(runs).len + RunsLen(Tail(runs))

RECURSIVE RunsTake(_, _)
\* &buf[..k]
RunsTake(runs, k) ==
    IF k <= 0 \/ runs = <<>> THEN <<>>
    ELSE IF Head(runs).len <= k
         THEN <<Head(runs)>> \o RunsTake(Tail(runs), k - Head(runs).len)
         ELSE <<[tag |-> Head(runs).tag, pos |-> Head(runs).pos, len |-> k]>>

RECURSIVE RunsDrop(_, _)
\* &buf[k..]
RunsDrop(runs, k) ==
    IF runs = <<>> THEN <<>>
    ELSE IF k <= 0 THEN runs
    ELSE IF Head(runs).len <= k
         THEN RunsDrop(Tail(runs), k - Head(runs).len)
         ELSE <<[tag |-> Head(runs).tag,
                  pos |-> IF Head(runs).tag = 0 THEN 0 ELSE Head(runs).pos + k,
                  len |-> Head(runs).len - k]>> \o Tail(runs)

RECURSIVE RunsMerge(_)
\* the same bytes, with adjacent runs joined when they are of one origin and
\* consecutive in its stream
RunsMerge(runs) ==
    IF Len(runs) <= 1 THEN runs
    ELSE IF /\ runs[1].tag = runs[2].tag
            /\ (runs[1].tag = 0 \/ runs[2].pos = runs[1].pos + runs[1].len)
         THEN RunsMerge(<<[tag |-> runs[1].tag, pos |-> runs[1].pos,
                           len |-> runs[1].len + runs[2].len]>>
                        \o Tail(Tail(runs)))
         ELSE <<runs[1]>> \o RunsMerge(Tail(runs))

\* the origins of the bytes of a range
RunTags(runs) == {runs[i].tag : i \in DOMAIN runs}

\* [0u8; 1024]
ZeroBuf == <<[tag |-> 0, pos |-> 0, len |-> BufLen]>>

StoreRead_front(runs, off, n, tag, pos) ==
    RunsMerge(<<[tag |-> tag, pos |-> pos, len |-> n]>> \o RunsDrop(runs, n))
\* socket.read(&mut buf[off..]) storing the n bytes pos .. pos + n - 1 of the
\* stream of iteration tag
StoreRead(runs, off, n, tag, pos) ==
    RunsMerge(RunsTake(runs, off) \o <<[tag |-> tag, pos |-> pos, len |-> n]>>
              \o RunsDrop(runs, off + n))

\* nothing printed as a response
NoReport == [len |-> 0, tags |-> {}, bytes |-> <<>>]

\* println!("{}", &buf[..total_read]) (as text or as raw bytes)
ReportOf(runs, n) ==
    [len |-> n, tags |-> RunTags(RunsTake(runs, n)), bytes |-> RunsTake(runs, n)]

BufferFull_off2(tr) == tr >= BufLen - 2
BufferFull_never(tr) == tr > BufLen
BufferFull_exact(tr) == tr >= BufLen
\* if total_read >= buf.len() - 1 { break; }
BufferFull(tr) == tr >= BufLen - 1

\* the firmware runs until a task panics
Running == cpc # "panicked"

----------------------------------------------------------------------------
\* wifi_scanner has been called; nothing of it has run
ScanInit ==
    /\ wpc = "init_radio"
    /\ wlog = <<>>
    /\ wresult = "none"
    /\ tpc = "unspawned"
    /\ scan_results = <<>>
    /\ printed = 0

Init ==
    /\ ScanInit
    /\ started = FALSE
    /\ connected = FALSE
    /\ cpc = "unspawned"
    /\ assoc = "Unconfigured"
    /\ ctimer = 0
    /\ npc = "unspawned"
    /\ link_up = FALSE
    /\ ip = FALSE
    /\ mpc = "boot"
    /\ mtimer = 0
    /\ sawLink = FALSE
    /\ sawAddr = FALSE
    /\ sampledBoth = FALSE
    /\ live = 0
    /\ sock = "none"
    /\ iter = 0
    /\ total_read = 0
    /\ rx_pos = 0
    /\ buf = ZeroBuf
    /\ outcome = "none"
    /\ reported = NoReport

----------------------------------------------------------------------------
\* connection_task (lines 41-81)

CheckStarted_always ==
    /\ Running
    /\ cpc = "loop_head"
    /\ cpc' = "set_config"
    /\ assoc' = "Unconfigured"
    /\ UNCHANGED <<scanVars, ctimer, radioVars, netVars, mainVars, gateVars, sockVars, readVars>>
\* line 46: if !matches!(controller.is_started(), Ok(true)); lines 47, 59
CheckStarted ==
    /\ Running
    /\ cpc = "loop_head"
    /\ IF started
       THEN /\ cpc' = "connect"              \* line 60: connect_async().await
            /\ assoc' = "Connecting"         \* "Attempting to connect to WiFi..."
       ELSE /\ cpc' = "set_config"
            /\ assoc' = "Unconfigured"       \* "Configuring WiFi with SSID"
    /\ UNCHANGED <<scanVars, ctimer, radioVars, netVars, mainVars, gateVars, sockVars, readVars>>

\* lines 48-55: set_config(&client_config).unwrap(), then start_async() is issued
SetConfig ==
    /\ Running
    /\ cpc = "set_config"
    /\ \E ok \in BOOLEAN :
        IF ok
        THEN /\ cpc' = "start"               \* line 55: start_async().await
             /\ assoc' = "Starting"          \* "Starting WiFi..."
        ELSE /\ cpc' = "panicked"            \* unwrap() on Err
             /\ assoc' = assoc
    /\ UNCHANGED <<scanVars, ctimer, radioVars, netVars, mainVars, gateVars, sockVars, readVars>>

\* lines 55-60: start_async().await.unwrap() returns; connect_async() is issued
StartDone ==
    /\ Running
    /\ cpc = "start"
    /\ \E ok \in BOOLEAN :
        IF ok
        THEN /\ started' = TRUE
             /\ cpc' = "connect"
             /\ assoc' = "Connecting"
        ELSE /\ cpc' = "panicked"            \* unwrap() on Err
             /\ UNCHANGED <<started, assoc>>
    /\ UNCHANGED <<scanVars, ctimer, connected, netVars, mainVars, gateVars, sockVars, readVars>>

ConnectAsyncDone_nocontinue ==
    /\ Running
    /\ cpc = "connect"
    /\ \E ok \in BOOLEAN :
        IF ok
        THEN /\ connected' = TRUE
             /\ cpc' = "poll"
             /\ assoc' = "Connected"
             /\ ctimer' = 0
        ELSE /\ cpc' = "poll"
             /\ UNCHANGED <<connected, assoc, ctimer>>
    /\ UNCHANGED <<scanVars, started, netVars, mainVars, gateVars, sockVars, readVars>>
\* lines 60-69: connect_async().await returns
ConnectAsyncDone ==
    /\ Running
    /\ cpc = "connect"
    /\ \E ok \in BOOLEAN :
        IF ok
        THEN /\ connected' = TRUE
             /\ cpc' = "poll"                \* "WiFi connected successfully!"
             /\ assoc' = "Connected"
             /\ ctimer' = 0
        ELSE /\ cpc' = "backoff"             \* "Failed to connect to WiFi"
             /\ ctimer' = AssocBackoffMs     \* line 66
             /\ UNCHANGED <<connected, assoc>>
    /\ UNCHANGED <<scanVars, started, netVars, mainVars, gateVars, sockVars, readVars>>

\* lines 66-67: the backoff timer fires; continue
BackoffDone ==
    /\ Running
    /\ cpc = "backoff"
    /\ cpc' = "loop_head"
    /\ ctimer' = 0
    /\ UNCHANGED <<scanVars, assoc, radioVars, netVars, mainVars, gateVars, sockVars, readVars>>

\* lines 73-78: if !matches!(controller.is_connected(), Ok(true))
PollConnected ==
    /\ Running
    /\ cpc = "poll"
    /\ IF connected
       THEN /\ cpc' = "poll_wait"            \* line 78
            /\ assoc' = assoc
       ELSE /\ cpc' = "lost_wait"            \* "WiFi disconnected, reconnecting..."
            /\ assoc' = "Disconnected"
    /\ ctimer' = PollMs
    /\ UNCHANGED <<scanVars, radioVars, netVars, mainVars, gateVars, sockVars, readVars>>

\* line 78: the poll timer fires; the inner loop repeats
PollWaitDone ==
    /\ Running
    /\ cpc = "poll_wait"
    /\ cpc' = "poll"
    /\ ctimer' = 0
    /\ UNCHANGED <<scanVars, assoc, radioVars, netVars, mainVars, gateVars, sockVars, readVars>>

LostWaitDone_nobreak ==
    /\ Running
    /\ cpc = "lost_wait"
    /\ cpc' = "poll"
    /\ ctimer' = 0
    /\ UNCHANGED <<scanVars, assoc, radioVars, netVars, mainVars, gateVars, sockVars, readVars>>
\* lines 75-76: the timer fires; break to the outer loop
LostWaitDone ==
    /\ Running
    /\ cpc = "lost_wait"
    /\ cpc' = "loop_head"
    /\ ctimer' = 0
    /\ UNCHANGED <<scanVars, assoc, radioVars, netVars, mainVars, gateVars, sockVars, readVars>>

\* the access point is lost: is_connected() stops reporting Ok(true)
RadioLinkLoss ==
    /\ Running
    /\ connected
    /\ connected' = FALSE
    /\ UNCHANGED <<scanVars, started, assocVars, netVars, mainVars, gateVars, sockVars, readVars>>

----------------------------------------------------------------------------
\* net_task (lines 84-88): runner.run() drives the embassy_net stack

\* the stack polls the device: the link flag follows the station's association,
\* and the DHCP configuration is dropped when the link is down
NetPollLink ==
    /\ Running
    /\ npc = "running"
    /\ link_up # connected
    /\ link_up' = connected
    /\ ip' = (connected /\ ip)
    /\ UNCHANGED <<scanVars, npc, radioVars, assocVars, mainVars, gateVars, sockVars, readVars>>

\* DHCP completes over an established link: config_v4() becomes Some
NetDhcpBound ==
    /\ Running
    /\ npc = "running"
    /\ link_up /\ connected /\ ~ip
    /\ ip' = TRUE
    /\ UNCHANGED <<scanVars, npc, link_up, radioVars, assocVars, mainVars, gateVars, sockVars, readVars>>

----------------------------------------------------------------------------
\* main (lines 94-260)

\* lines 96-149: hardware, radio, controller and network stack are initialised
Boot ==
    /\ mpc = "boot"
    /\ mpc' = "spawn_conn"
    /\ UNCHANGED <<scanVars, mtimer, radioVars, assocVars, netVars, gateVars, sockVars, readVars>>

\* line 152: spawner.spawn(connection_task(controller)).ok()
SpawnConnection ==
    /\ mpc = "spawn_conn"
    /\ \E ok \in BOOLEAN :                  \* the Result is discarded by .ok()
        cpc' = IF ok THEN "loop_head" ELSE "rejected"
    /\ mpc' = "spawn_net"
    /\ UNCHANGED <<scanVars, mtimer, assoc, ctimer, radioVars, netVars, gateVars, sockVars, readVars>>

SpawnNet_omitted ==
    /\ Running
    /\ mpc = "spawn_net"
    /\ npc' = npc
    /\ mpc' = "gate_link"
    /\ UNCHANGED <<scanVars, mtimer, link_up, ip, radioVars, assocVars, gateVars, sockVars, readVars>>
\* line 153: spawner.spawn(net_task(runner)).ok()
SpawnNet ==
    /\ Running
    /\ mpc = "spawn_net"
    /\ \E ok \in BOOLEAN :                  \* the Result is discarded by .ok()
        npc' = IF ok THEN "running" ELSE "rejected"
    /\ mpc' = "gate_link"
    /\ UNCHANGED <<scanVars, mtimer, link_up, ip, radioVars, assocVars, gateVars, sockVars, readVars>>

GatePollLink_skip ==
    /\ Running
    /\ mpc = "gate_link"
    /\ mpc' = "gate_addr"
    /\ sawLink' = sawLink
    /\ sampledBoth' = (sampledBoth \/ (link_up /\ ip))
    /\ UNCHANGED <<scanVars, mtimer, sawAddr, radioVars, assocVars, netVars, sockVars, readVars>>
\* lines 157-162: if stack.is_link_up() { break; } Timer::after(500 ms)
GatePollLink ==
    /\ Running
    /\ mpc = "gate_link"
    /\ IF link_up
       THEN /\ mpc' = "gate_addr"
            /\ sawLink' = TRUE
            /\ mtimer' = 0
       ELSE /\ mpc' = "gate_link_wait"
            /\ mtimer' = GateMs
            /\ sawLink' = sawLink
    /\ sampledBoth' = (sampledBoth \/ (link_up /\ ip))
    /\ UNCHANGED <<scanVars, sawAddr, radioVars, assocVars, netVars, sockVars, readVars>>

\* line 162: the timer fires; the loop repeats
GateLinkWaitDone ==
    /\ Running
    /\ mpc = "gate_link_wait"
    /\ mpc' = "gate_link"
    /\ mtimer' = 0
    /\ UNCHANGED <<scanVars, radioVars, assocVars, netVars, gateVars, sockVars, readVars>>

GatePollAddr_nocheck ==
    /\ Running
    /\ mpc = "gate_addr"
    /\ mpc' = "loop_head"
    /\ sawAddr' = ip
    /\ sampledBoth' = (sampledBoth \/ (link_up /\ ip))
    /\ UNCHANGED <<scanVars, mtimer, sawLink, radioVars, assocVars, netVars, sockVars, readVars>>
\* lines 167-173: if let Some(config) = stack.config_v4() { break; } Timer::after(500 ms)
GatePollAddr ==
    /\ Running
    /\ mpc = "gate_addr"
    /\ IF ip
       THEN /\ mpc' = "loop_head"
            /\ sawAddr' = TRUE
            /\ mtimer' = 0
       ELSE /\ mpc' = "gate_addr_wait"
            /\ mtimer' = GateMs
            /\ sawAddr' = sawAddr
    /\ sampledBoth' = (sampledBoth \/ (link_up /\ ip))
    /\ UNCHANGED <<scanVars, sawLink, radioVars, assocVars, netVars, sockVars, readVars>>

\* line 173: the timer fires; the loop repeats
GateAddrWaitDone ==
    /\ Running
    /\ mpc = "gate_addr_wait"
    /\ mpc' = "gate_addr"
    /\ mtimer' = 0
    /\ UNCHANGED <<scanVars, radioVars, assocVars, netVars, gateVars, sockVars, readVars>>

\* lines 183-195: TcpSocket::new(stack, RX_BUFFER, TX_BUFFER); set_timeout;
\* connect() is issued
Construct ==
    /\ Running
    /\ mpc = "loop_head"
    /\ live' = live + 1
    /\ sock' = "created"
    /\ iter' = (iter % MaxIter) + 1
    /\ reported' = NoReport
    /\ rx_pos' = 0                           \* a new connection: a new stream
    /\ mpc' = "connect"
    /\ UNCHANGED <<scanVars, mtimer, total_read, buf, outcome, radioVars, assocVars, netVars, gateVars>>

ConnectDone_fallthrough ==
    /\ Running
    /\ mpc = "connect"
    /\ \E ok \in BOOLEAN :
        IF ok
        THEN /\ sock' = "connected"
             /\ outcome' = "connected"
             /\ mpc' = "write"
             /\ mtimer' = mtimer
        ELSE /\ outcome' = "connect_fail"
             /\ mpc' = "write"
             /\ mtimer' = mtimer
             /\ sock' = sock
    /\ UNCHANGED <<scanVars, live, iter, total_read, rx_pos, buf, reported, radioVars, assocVars, netVars, gateVars>>
\* lines 195-208: socket.connect().await returns; on Ok the request is written
ConnectDone ==
    /\ Running
    /\ mpc = "connect"
    /\ \E ok \in BOOLEAN :
        IF ok
        THEN /\ sock' = "connected"
             /\ outcome' = "connected"       \* "Connected to server!"
             /\ mpc' = "write"               \* line 208: socket.write().await
             /\ mtimer' = mtimer
        ELSE /\ outcome' = "connect_fail"    \* "Failed to connect"
             /\ mpc' = "connect_backoff"
             /\ mtimer' = RetryMs            \* line 199
             /\ sock' = sock
    /\ UNCHANGED <<scanVars, live, iter, total_read, rx_pos, buf, reported, radioVars, assocVars, netVars, gateVars>>

ConnectBackoffDone_leak ==
    /\ Running
    /\ mpc = "connect_backoff"
    /\ mpc' = "loop_head"
    /\ mtimer' = 0
    /\ UNCHANGED <<scanVars, sockVars, readVars, radioVars, assocVars, netVars, gateVars>>
ConnectBackoffDone_regate ==
    /\ Running
    /\ mpc = "connect_backoff"
    /\ live' = live - 1
    /\ sock' = "none"
    /\ mpc' = "gate_link"
    /\ mtimer' = 0
    /\ UNCHANGED <<scanVars, readVars, radioVars, assocVars, netVars, gateVars>>
\* lines 199-200: the timer fires; continue: socket goes out of scope (dropped)
ConnectBackoffDone ==
    /\ Running
    /\ mpc = "connect_backoff"
    /\ live' = live - 1
    /\ sock' = "none"
    /\ mpc' = "loop_head"
    /\ mtimer' = 0
    /\ UNCHANGED <<scanVars, readVars, radioVars, assocVars, netVars, gateVars>>

WriteDone_noreset ==
    /\ Running
    /\ mpc = "write"
    /\ \E ok \in BOOLEAN :
        IF ok
        THEN /\ mpc' = "read"
             /\ outcome' = "sent"
             /\ UNCHANGED <<buf, total_read, sock, mtimer>>
        ELSE /\ sock' = "closed"
             /\ outcome' = "write_fail"
             /\ mpc' = "write_backoff"
             /\ mtimer' = RetryMs
             /\ UNCHANGED <<buf, total_read>>
    /\ UNCHANGED <<scanVars, live, iter, rx_pos, reported, radioVars, assocVars, netVars, gateVars>>
\* lines 208-224: socket.write().await returns; on Ok buf and total_read are
\* initialised and the first read is issued
WriteDone ==
    /\ Running
    /\ mpc = "write"
    /\ \E ok \in BOOLEAN :
        IF ok
        THEN /\ buf' = ZeroBuf               \* line 220
             /\ total_read' = 0              \* line 221
             /\ outcome' = "sent"            \* "Request sent!"
             /\ mpc' = "read"                \* line 224: socket.read().await
             /\ UNCHANGED <<sock, mtimer>>
        ELSE /\ sock' = "closed"             \* line 212: socket.close()
             /\ outcome' = "write_fail"
             /\ mpc' = "write_backoff"
             /\ mtimer' = RetryMs            \* line 213
             /\ UNCHANGED <<buf, total_read>>
    /\ UNCHANGED <<scanVars, live, iter, rx_pos, reported, radioVars, assocVars, netVars, gateVars>>

WriteBackoffDone_stop ==
    /\ Running
    /\ mpc = "write_backoff"
    /\ live' = live - 1
    /\ sock' = "none"
    /\ mpc' = "stopped"
    /\ mtimer' = 0
    /\ UNCHANGED <<scanVars, readVars, radioVars, assocVars, netVars, gateVars>>
\* lines 213-214: the timer fires; continue: socket goes out of scope (dropped)
WriteBackoffDone ==
    /\ Running
    /\ mpc = "write_backoff"
    /\ live' = live - 1
    /\ sock' = "none"
    /\ mpc' = "loop_head"
    /\ mtimer' = 0
    /\ UNCHANGED <<scanVars, readVars, radioVars, assocVars, netVars, gateVars>>

\* the sizes of the segments of a response in specification Spec: a segment of
\* ChunkLen bytes, or one that fills the slice offered, or all of it but a byte
SegmentLens(space) == {n \in {ChunkLen, space - 1, space} : 1 <= n /\ n <= space}

\* every size a read into a slice of space bytes can return
AllLens(space) == 1 .. space

ReadSome_nocount(n) ==
    /\ Running
    /\ mpc = "read"
    /\ n \in 1 .. (BufLen - total_read)
    /\ total_read' = total_read
    /\ buf' = StoreRead(buf, total_read, n, iter, rx_pos)
    /\ rx_pos' = rx_pos + n
    /\ IF BufferFull(total_read)
       THEN /\ mpc' = "report"
            /\ outcome' = "full"
       ELSE /\ mpc' = "read"
            /\ outcome' = outcome
    /\ UNCHANGED <<scanVars, mtimer, iter, reported, sockVars, radioVars, assocVars, netVars, gateVars>>
\* lines 224, 229-235: read returns Ok(n), n > 0 bytes stored at buf[total_read..]
ReadSome(n) ==
    /\ Running
    /\ mpc = "read"
    /\ n \in 1 .. (BufLen - total_read)
    /\ total_read' = total_read + n
    /\ buf' = StoreRead(buf, total_read, n, iter, rx_pos)
    /\ rx_pos' = rx_pos + n
    /\ IF BufferFull(total_read + n)
       THEN /\ mpc' = "report"               \* break
            /\ outcome' = "full"
       ELSE /\ mpc' = "read"                 \* next socket.read().await
            /\ outcome' = outcome
    /\ UNCHANGED <<scanVars, mtimer, iter, reported, sockVars, radioVars, assocVars, netVars, gateVars>>

\* lines 225-228: read returns Ok(0): "Connection closed by server"
ReadZero ==
    /\ Running
    /\ mpc = "read"
    /\ mpc' = "report"
    /\ outcome' = "remote_close"
    /\ UNCHANGED <<scanVars, mtimer, iter, total_read, rx_pos, buf, reported, sockVars, radioVars, assocVars, netVars, gateVars>>

ReadErr_continue ==
    /\ Running
    /\ mpc = "read"
    /\ mpc' = "loop_head"
    /\ outcome' = "read_err"
    /\ live' = live - 1
    /\ sock' = "none"
    /\ UNCHANGED <<scanVars, mtimer, iter, total_read, rx_pos, buf, reported, radioVars, assocVars, netVars, gateVars>>
\* lines 236-239: read returns Err: "Read error"
ReadErr ==
    /\ Running
    /\ mpc = "read"
    /\ mpc' = "report"
    /\ outcome' = "read_err"
    /\ UNCHANGED <<scanVars, mtimer, iter, total_read, rx_pos, buf, reported, sockVars, radioVars, assocVars, netVars, gateVars>>

\* lines 244-252: if total_read > 0 the bytes buf[..total_read] are printed
Report ==
    /\ Running
    /\ mpc = "report"
    /\ reported' = IF total_read > 0 THEN ReportOf(buf, total_read) ELSE NoReport
    /\ mpc' = "close"
    /\ UNCHANGED <<scanVars, mtimer, iter, total_read, rx_pos, buf, outcome, sockVars, radioVars, assocVars, netVars, gateVars>>

Close_skip ==
    /\ Running
    /\ mpc = "close"
    /\ mpc' = "wait_next"
    /\ mtimer' = NextRequestMs
    /\ UNCHANGED <<scanVars, sockVars, readVars, radioVars, assocVars, netVars, gateVars>>
\* lines 254-258: socket.close(); Timer::after(10 s)
Close ==
    /\ Running
    /\ mpc = "close"
    /\ sock' = "closed"
    /\ mpc' = "wait_next"
    /\ mtimer' = NextRequestMs
    /\ UNCHANGED <<scanVars, live, readVars, radioVars, assocVars, netVars, gateVars>>

\* lines 258-259: the timer fires; the loop body ends: socket is dropped
WaitNextDone ==
    /\ Running
    /\ mpc = "wait_next"
    /\ live' = live - 1
    /\ sock' = "none"
    /\ mpc' = "loop_head"
    /\ mtimer' = 0
    /\ UNCHANGED <<scanVars, readVars, radioVars, assocVars, netVars, gateVars>>

----------------------------------------------------------------------------
\* wifi/src/scanner.rs: wifi_scanner (lines 85-136)

\* the fallible steps of wifi_scanner, in the order of the code
ScanSteps == <<"radio_init", "wifi_new", "set_mode", "start", "spawn">>

\* lines 89-96: esp_radio::init().map_err(..)?; RADIO_INIT.init(..)
ScannerInitRadio ==
    /\ wpc = "init_radio"
    /\ \E ok \in BOOLEAN :
        IF ok
        THEN /\ wlog' = Append(wlog, "radio_init")
             /\ wpc' = "new_wifi"
             /\ wresult' = wresult
        ELSE /\ wresult' = "Err"
             /\ wpc' = "returned"
             /\ wlog' = wlog
    /\ UNCHANGED <<fwVars, tpc, scan_results, printed>>

\* lines 98-109: esp_radio::wifi::new(..).map_err(..)?; WIFI_CONTROLLER.init(..)
ScannerNewWifi ==
    /\ wpc = "new_wifi"
    /\ \E ok \in BOOLEAN :
        IF ok
        THEN /\ wlog' = Append(wlog, "wifi_new")
             /\ wpc' = "set_mode"
             /\ wresult' = wresult
        ELSE /\ wresult' = "Err"
             /\ wpc' = "returned"
             /\ wlog' = wlog
    /\ UNCHANGED <<fwVars, tpc, scan_results, printed>>

ScannerSetMode_ignored ==
    /\ wpc = "set_mode"
    /\ \E ok \in BOOLEAN :
        /\ wlog' = IF ok THEN Append(wlog, "set_mode") ELSE wlog
        /\ wpc' = "wait_mode"
        /\ wresult' = wresult
    /\ UNCHANGED <<fwVars, tpc, scan_results, printed>>
\* lines 111-117: set_mode(WifiMode::Sta).map_err(..)?; Timer::after(500 ms)
ScannerSetMode ==
    /\ wpc = "set_mode"
    /\ \E ok \in BOOLEAN :
        IF ok
        THEN /\ wlog' = Append(wlog, "set_mode")
             /\ wpc' = "wait_mode"
             /\ wresult' = wresult
        ELSE /\ wresult' = "Err"
             /\ wpc' = "returned"
             /\ wlog' = wlog
    /\ UNCHANGED <<fwVars, tpc, scan_results, printed>>

\* lines 117-120: the timer fires; start_async() is issued
ScannerModeWaitDone ==
    /\ wpc = "wait_mode"
    /\ wpc' = "start"
    /\ UNCHANGED <<fwVars, wlog, wresult, tpc, scan_results, printed>>

\* lines 120-127: start_async().await.map_err(..)?; Timer::after(500 ms)
ScannerStartDone ==
    /\ wpc = "start"
    /\ \E ok \in BOOLEAN :
        IF ok
        THEN /\ wlog' = Append(wlog, "start")
             /\ wpc' = "wait_start"
             /\ wresult' = wresult
        ELSE /\ wresult' = "Err"
             /\ wpc' = "returned"
             /\ wlog' = wlog
    /\ UNCHANGED <<fwVars, tpc, scan_results, printed>>

\* line 127: the timer fires
ScannerStartWaitDone ==
    /\ wpc = "wait_start"
    /\ wpc' = "spawn"
    /\ UNCHANGED <<fwVars, wlog, wresult, tpc, scan_results, printed>>

\* lines 129-134: spawner.spawn(wifi_scan_task(..)).map_err(..)?; Ok(())
ScannerSpawn ==
    /\ wpc = "spawn"
    /\ \E ok \in BOOLEAN :
        IF ok
        THEN /\ wlog' = Append(wlog, "spawn")
             /\ tpc' = "set_mode"
             /\ wresult' = "Ok"
        ELSE /\ wresult' = "Err"
             /\ UNCHANGED <<wlog, tpc>>
    /\ wpc' = "returned"
    /\ UNCHANGED <<fwVars, scan_results, printed>>

\* wifi_scan_task (lines 29-61)

\* the signal strengths a network is reported with
RssiLevels == {-90, -60, -30}

\* the results a scan can return
NetLists == UNION {[1 .. n -> RssiLevels] : n \in 0 .. MaxNets}

\* lines 32-34: set_mode(WifiMode::Sta).unwrap()
ScanTaskSetMode ==
    /\ tpc = "set_mode"
    /\ \E ok \in BOOLEAN :
        tpc' = IF ok THEN "scan" ELSE "panicked"
    /\ UNCHANGED <<fwVars, wpc, wlog, wresult, scan_results, printed>>

\* lines 40-43, 54-59: scan_with_config_async().await returns
ScanDone ==
    /\ tpc = "scan"
    /\ \/ \E nets \in NetLists :              \* Ok(scan_results)
            /\ scan_results' = nets
            /\ tpc' = "print"
       \/ /\ scan_results' = <<>>             \* Err(e): "WiFi scan failed"
          /\ tpc' = "wait"
    /\ printed' = 0
    /\ UNCHANGED <<fwVars, wpc, wlog, wresult>>

\* lines 44-59: for (i, ap) in scan_results.iter().enumerate() { println }
ScanPrint ==
    /\ tpc = "print"
    /\ IF printed < Len(scan_results)
       THEN /\ printed' = printed + 1
            /\ UNCHANGED <<tpc, scan_results>>
       ELSE /\ tpc' = "wait"                 \* Timer::after(SCAN_INTERVAL_SECS)
            /\ scan_results' = <<>>
            /\ printed' = 0
    /\ UNCHANGED <<fwVars, wpc, wlog, wresult>>

\* line 59: the timer fires; the loop repeats
ScanWaitDone ==
    /\ tpc = "wait"
    /\ tpc' = "scan"
    /\ UNCHANGED <<fwVars, wpc, wlog, wresult, scan_results, printed>>

----------------------------------------------------------------------------
\* Specifications

AssocStep ==
    \/ CheckStarted
    \/ SetConfig
    \/ StartDone
    \/ ConnectAsyncDone
    \/ BackoffDone
    \/ PollConnected
    \/ PollWaitDone
    \/ LostWaitDone

NetStep ==
    \/ NetPollLink
    \/ NetDhcpBound

GateStep ==
    \/ Boot
    \/ SpawnConnection
    \/ SpawnNet
    \/ GatePollLink
    \/ GateLinkWaitDone
    \/ GatePollAddr
    \/ GateAddrWaitDone

\* one step of the request loop other than a non-empty read
LoopStep ==
    \/ Construct
    \/ ConnectDone
    \/ ConnectBackoffDone
    \/ WriteDone
    \/ WriteBackoffDone
    \/ ReadZero
    \/ ReadErr
    \/ Report
    \/ Close
    \/ WaitNextDone

ReadSegment == \E n \in SegmentLens(BufLen - total_read) : ReadSome(n)

ReadAny == \E n \in AllLens(BufLen - total_read) : ReadSome(n)

\* the three tasks and the radio, responses arriving in segments
Next ==
    \/ AssocStep
    \/ NetStep
    \/ RadioLinkLoss
    \/ GateStep
    \/ LoopStep
    \/ ReadSegment

Spec == Init /\ [][Next]_vars

\* every I/O call and every timer of main eventually returns
MainFair ==
    /\ WF_vars(LoopStep)
    /\ WF_vars(ReadSegment)

SpecLive == Spec /\ MainFair

\* every await of connection_task eventually returns
AssocFair == WF_vars(AssocStep)

SpecBothLive == Spec /\ MainFair /\ AssocFair

\* the request loop alone, from the state in which the gate has just released
\* main (association up, address assigned), with every split of the response
\* into reads
InitLoop ==
    /\ ScanInit
    /\ started = TRUE
    /\ connected = TRUE
    /\ cpc = "poll_wait"
    /\ assoc = "Connected"
    /\ ctimer = PollMs
    /\ npc = "running"
    /\ link_up = TRUE
    /\ ip = TRUE
    /\ mpc = "loop_head"
    /\ mtimer = 0
    /\ sawLink = TRUE
    /\ sawAddr = TRUE
    /\ sampledBoth = TRUE
    /\ live = 0
    /\ sock = "none"
    /\ iter = 0
    /\ total_read = 0
    /\ rx_pos = 0
    /\ buf = ZeroBuf
    /\ outcome = "none"
    /\ reported = NoReport

NextLoop ==
    \/ LoopStep
    \/ ReadAny

SpecLoop == InitLoop /\ [][NextLoop]_vars

\* the sizes of a response that trickles in: single bytes as well as segments
TrickleLens(space) == {1} \cup SegmentLens(space)

ReadTrickle == \E n \in TrickleLens(BufLen - total_read) : ReadSome(n)

NextTrickle ==
    \/ LoopStep
    \/ ReadTrickle

\* every socket call returns (set_timeout at line 192) and every timer fires
TrickleFair ==
    /\ WF_vars(LoopStep)
    /\ WF_vars(ReadTrickle)

\* the request loop alone, the response arriving byte by byte or in segments
SpecTrickle == InitLoop /\ [][NextTrickle]_vars /\ TrickleFair

\* wifi_scanner and the task it spawns
NextScanner ==
    \/ ScannerInitRadio
    \/ ScannerNewWifi
    \/ ScannerSetMode
    \/ ScannerModeWaitDone
    \/ ScannerStartDone
    \/ ScannerStartWaitDone
    \/ ScannerSpawn
    \/ ScanTaskSetMode
    \/ ScanDone
    \/ ScanPrint
    \/ ScanWaitDone

SpecScanner == Init /\ [][NextScanner]_vars


----------------------------------------------------------------------------
\* Positions of main

GatePcs == {"boot", "spawn_conn", "spawn_net",
            "gate_link", "gate_link_wait", "gate_addr", "gate_addr_wait"}

LoopPcs == {"loop_head", "connect", "connect_backoff", "write", "write_backoff",
            "read", "report", "close", "wait_next"}

----------------------------------------------------------------------------
\* C1: at every moment, under every interleaving of the three tasks and every
\* outcome of connect, write and read, at most one TcpSocket bound to
\* RX_BUFFER/TX_BUFFER is alive.
C1_AtMostOneEndpoint == live <= 1

\* a new endpoint is in use after an earlier iteration went through its read
\* phase, while the association task has detected a disconnect
C1_Witness ==
    /\ live = 1
    /\ mpc = "connect"
    /\ outcome \in {"full", "remote_close", "read_err"}
    /\ assoc = "Disconnected"

\* C2: for every split of the server's data into reads, total_read never
\* exceeds the 1024 bytes of buf, buf keeps its 1024 bytes, and whenever a read
\* is issued total_read is an offset strictly inside buf.
C2_ReadInBounds ==
    /\ total_read <= BufLen
    /\ RunsLen(buf) = BufLen
    /\ (mpc = "read" => total_read < BufLen)

\* the server sent as much as the slices offered could take: buf is full
C2_Witness ==
    /\ mpc = "report"
    /\ outcome = "full"
    /\ total_read = BufLen

\* C3 as stated: when the read loop stops because the buffer is full,
\* total_read is capacity - 1 (1023).
C3_StopsAtCapacityMinusOne == (outcome = "full" => total_read = BufLen - 1)

\* C3 as amended: when the read loop stops because the buffer is full,
\* total_read is capacity - 1 or capacity (1023 or 1024), never more.
C3_StopsAtCapacity == (outcome = "full" => total_read \in {BufLen - 1, BufLen})

\* the loop stopped with exactly capacity - 1 bytes
C3_Witness ==
    /\ mpc = "report"
    /\ outcome = "full"
    /\ total_read = BufLen - 1

C5_LoopAfterGate ==
    /\ (sawAddr => sawLink)
    /\ (mpc \in {"gate_addr", "gate_addr_wait"} => sawLink)
    /\ ((mpc \in LoopPcs \/ live > 0 \/ sock # "none") => (sawLink /\ sawAddr))

\* the first connect is in flight, after both observations
C5_Witness ==
    /\ mpc = "connect"
    /\ live = 1
    /\ iter = 1
    /\ outcome = "none"
    /\ sawLink /\ sawAddr

\* the edges of the association state machine; Connecting -> Connecting (the
\* retry after a failed connect) leaves the state unchanged
LegalEdges ==
    { <<"Unconfigured", "Starting">>,
      <<"Starting", "Connecting">>,
      <<"Connecting", "Connected">>,
      <<"Connected", "Disconnected">>,
      <<"Disconnected", "Unconfigured">>,
      <<"Disconnected", "Starting">>,
      <<"Disconnected", "Connecting">> }

\* C6: every change of the association state is one of the documented edges;
\* Disconnected is left only by the started-check at the head of the loop
\* (to Unconfigured, or, the radio being started, to a new connect attempt),
\* and Connected is entered only from Connecting by a connect attempt that
\* succeeded.
C6_LegalTransitions ==
    [][ /\ (assoc' # assoc => <<assoc, assoc'>> \in LegalEdges)
        /\ (assoc = "Disconnected" /\ assoc' # assoc => cpc = "loop_head")
        /\ (assoc' = "Connected" /\ assoc # "Connected"
              => cpc = "connect" /\ assoc = "Connecting") ]_vars

\* the task is Connected again after a disconnect that the stack has seen
C6_Witness ==
    /\ assoc = "Connected"
    /\ connected
    /\ sawLink
    /\ ~link_up

\* C7 as stated: whatever association call fails, the association task keeps
\* running (it never terminates).
C7_TaskKeepsRunning == cpc # "panicked"

\* C8 as stated: the socket of an iteration is dropped only after an explicit
\* close().
C8_ClosedOnEveryPath == [][live' < live => sock = "closed"]_vars

\* C8 as amended: the socket of an iteration is dropped only after an explicit
\* close(), except after a failed connect, where it is dropped as created; and
\* a socket is constructed only when none is alive.
C8_ClosedAfterConnect ==
    [][ /\ (live' < live =>
              \/ sock = "closed"
              \/ sock = "created" /\ outcome = "connect_fail" /\ mpc = "connect_backoff")
        /\ (live' > live => live = 0 /\ sock = "none") ]_vars

\* the endpoint was closed explicitly after a read error
C8_Witness ==
    /\ mpc = "wait_next"
    /\ sock = "closed"
    /\ outcome = "read_err"

\* C9: after a failed connect, a failed write or a read error, the loop
\* eventually issues the connect of a freshly constructed endpoint.
C9_AlwaysRetries ==
    (\/ mpc = "connect_backoff"
     \/ mpc = "write_backoff"
     \/ (mpc = "report" /\ outcome = "read_err"))
        ~> (mpc = "connect" /\ sock = "created" /\ live = 1)

\* a new endpoint is connecting after the previous iteration's write failed
C9_Witness ==
    /\ mpc = "connect"
    /\ sock = "created"
    /\ outcome = "write_fail"

\* C10: while a read is pending, buf holds bytes of the current iteration up to
\* total_read and zeros after it; the range printed is the first total_read
\* bytes, all of them received in the current iteration.
C10_NoStaleBytes ==
    /\ (mpc = "read" =>
          /\ RunTags(RunsTake(buf, total_read)) \subseteq {iter}
          /\ RunTags(RunsDrop(buf, total_read)) \subseteq {0})
    /\ (mpc \in {"close", "wait_next"} =>
          /\ reported.len = total_read
          /\ (reported.len > 0 => reported.tags = {iter}))

\* a response of 5 bytes is printed in the iteration after the first
C10_Witness ==
    /\ mpc = "close"
    /\ iter = 2
    /\ reported.len = 5
    /\ reported.tags = {2}

\* C11: during the read phase the first total_read bytes of buf are the bytes
\* the server has sent so far, in order, however they were split into reads;
\* when the server closes after every read succeeded, total_read is the
\* number of bytes the server sent, and the range printed is the server's
\* stream of this iteration from its first byte to its last, in order; a
\* response is printed if and only if at least one byte was read; the wait
\* that follows is of 10 seconds.
C11_ResponseIsStream ==
    /\ (mpc \in {"read", "report"} /\ total_read > 0 =>
          RunsTake(buf, total_read) = <<[tag |-> iter, pos |-> 0, len |-> rx_pos]>>)
    /\ (mpc \in {"close", "wait_next"} /\ outcome = "remote_close" =>
          /\ total_read = rx_pos
          /\ total_read < BufLen - 1
          /\ (rx_pos > 0 =>
                reported.bytes = <<[tag |-> iter, pos |-> 0, len |-> rx_pos]>>)
          /\ (rx_pos = 0 => reported = NoReport))
    /\ (mpc \in {"close", "wait_next"} => (reported # NoReport <=> total_read > 0))
    /\ (mpc = "wait_next" => mtimer = NextRequestMs)

\* the 21 bytes of "HTTP/1.1 200 OK\r\n\r\nok" were printed and the endpoint closed
C11_Witness ==
    /\ mpc = "wait_next"
    /\ outcome = "remote_close"
    /\ reported.len = 21
    /\ sock = "closed"

\* C12: a step of the request loop leaves the association task and the radio
\* as they are and never leads back into the gate; the step that detects the
\* disconnect leaves main, its socket and its buffers as they are; and after a
\* disconnect detected during the request loop the association task issues a
\* new connect attempt and the loop begins a new iteration.
C12_IndependentRecovery ==
    /\ [][ /\ (mpc \in LoopPcs => mpc' \in LoopPcs)
           /\ (mpc \in LoopPcs /\ <<mainVars, sockVars, readVars>>' # <<mainVars, sockVars, readVars>>
                 => UNCHANGED <<assocVars, radioVars>>)
           /\ (assoc' = "Disconnected" /\ assoc # "Disconnected"
                 => UNCHANGED <<mainVars, sockVars, readVars, gateVars>>) ]_vars
    /\ (assoc = "Disconnected" /\ mpc \in LoopPcs) ~> (cpc = "connect")
    /\ \A i \in 1 .. MaxIter :
          (assoc = "Disconnected" /\ mpc \in LoopPcs /\ iter = i) ~> (iter # i)

\* the disconnect is detected while a response is being read
C12_Witness ==
    /\ assoc = "Disconnected"
    /\ cpc = "lost_wait"
    /\ mpc = "read"
    /\ total_read > 0

\* the first n elements of a sequence
Prefix(seq, n) == SubSeq(seq, 1, n)

\* C13: the steps of wifi_scanner succeed in the order radio init, controller
\* creation, station mode, start, spawn; it returns Ok only after all five;
\* it returns Err after a first failure, with no later step performed and the
\* scan task not spawned.
C13_ScannerAllOrNothing ==
    /\ wlog = Prefix(ScanSteps, Len(wlog))
    /\ (wresult = "Ok" => wlog = ScanSteps /\ tpc # "unspawned")
    /\ (wresult = "Err" => Len(wlog) < Len(ScanSteps) /\ tpc = "unspawned")
    /\ (wresult # "none" <=> wpc = "returned")
    /\ (tpc # "unspawned" => wresult = "Ok")

\* starting the controller failed: wifi_scanner returned Err after three steps
C13_Witness ==
    /\ wresult = "Err"
    /\ wlog = <<"radio_init", "wifi_new", "set_mode">>
    /\ tpc = "unspawned"

\* C14: while Connected the task polls is_connected() with a 1-second wait
\* between polls; a poll that reports not connected is followed by one
\* 1-second wait, then the started check at the head of the outer loop, and
\* eventually a new connect attempt; the task never goes back to polling
\* from a detected loss.
C14_PollThenReconnect ==
    /\ [](cpc \in {"poll_wait", "lost_wait"} => ctimer = PollMs)
    /\ [][ /\ (cpc = "poll" /\ cpc' # cpc =>
                 /\ cpc' = (IF connected THEN "poll_wait" ELSE "lost_wait")
                 /\ assoc' = (IF connected THEN "Connected" ELSE "Disconnected"))
           /\ (cpc = "poll_wait" /\ cpc' # cpc => cpc' = "poll")
           /\ (cpc = "lost_wait" /\ cpc' # cpc => cpc' = "loop_head" /\ assoc' = "Disconnected")
           /\ (assoc = "Disconnected" /\ assoc' # assoc =>
                 cpc = "loop_head" /\ started /\ cpc' = "connect") ]_vars
    /\ (cpc = "lost_wait") ~> (cpc = "connect")

\* a loss was detected, the 1-second wait is over, the started check is next
C14_Witness ==
    /\ cpc = "loop_head"
    /\ assoc = "Disconnected"
    /\ started
    /\ ~connected
    /\ ctimer = 0

\* C15: set_config and start_async are issued only when the radio does not
\* report started; with the radio started, the head of the outer loop goes
\* straight to a connect attempt, also after a failed attempt or a detected
\* loss; a failed connect attempt is followed by a 5-second wait and only
\* then by the head of the loop.
C15_ConfigureOnlyWhenStopped ==
    [][ /\ (cpc' = "set_config" /\ cpc' # cpc => cpc = "loop_head" /\ ~started)
        /\ (cpc' = "start" /\ cpc' # cpc => cpc = "set_config" /\ ~started)
        /\ (started' # started => cpc = "start" /\ ~started)
        /\ (cpc = "loop_head" /\ started /\ cpc' # cpc =>
              cpc' = "connect" /\ assoc' = "Connecting")
        /\ (cpc' = "connect" /\ cpc' # cpc => cpc \in {"loop_head", "start"} /\ started')
        /\ (cpc = "connect" /\ cpc' # cpc =>
              \/ cpc' = "poll" /\ connected'
              \/ cpc' = "backoff" /\ ctimer' = AssocBackoffMs /\ ~connected')
        /\ (cpc = "backoff" =>
              /\ ctimer = AssocBackoffMs
              /\ cpc' \in {"backoff", "loop_head"}) ]_vars

\* a connect attempt failed with the radio started: the 5-second wait runs
C15_Witness ==
    /\ cpc = "backoff"
    /\ started
    /\ ~connected
    /\ ctimer = AssocBackoffMs
    /\ assoc = "Connecting"

\* the positions of main inside the two polling loops of the gate
GatePollPcs == {"gate_link", "gate_link_wait", "gate_addr", "gate_addr_wait"}

\* C16 as stated: whenever main is inside the gate, both background tasks have
\* been started, also when the scheduler rejected a spawn request.
C16_GateAfterBothRunning ==
    (mpc \in GatePollPcs => cpc \notin {"unspawned", "rejected"} /\ npc = "running")

\* C16: main enters the gate only after both spawn requests have been made,
\* and no task runs before its request; the gate sees the link up, and is
\* left, only with both tasks accepted by the scheduler. A rejected request is
\* discarded and main polls the gate all the same.
C16_GateAfterBothSpawnRequests ==
    /\ (mpc \in {"boot", "spawn_conn"} => cpc = "unspawned" /\ assoc = "Unconfigured")
    /\ (mpc \in {"boot", "spawn_conn", "spawn_net"} => npc = "unspawned" /\ ~link_up)
    /\ (mpc \in GatePollPcs \cup LoopPcs => cpc # "unspawned" /\ npc # "unspawned")
    /\ (sawLink \/ mpc \in LoopPcs => cpc \notin {"unspawned", "rejected"} /\ npc = "running")
    /\ (cpc = "rejected" \/ npc = "rejected" => ~link_up /\ ~sawLink /\ mpc \notin LoopPcs)

\* the association task was rejected: main waits in the gate without it
C16_Witness ==
    /\ mpc = "gate_link_wait"
    /\ cpc = "rejected"
    /\ npc = "running"
    /\ mtimer = GateMs

\* the positions of main in which it sleeps before the next iteration
WaitPcs == {"connect_backoff", "write_backoff", "wait_next"}

\* C17: between two endpoint constructions the loop sleeps exactly once:
\* 5 seconds after a failed connect, 5 seconds after a failed write (the
\* endpoint closed first), 10 seconds after the read phase ended by remote
\* close, full buffer or read error (the endpoint closed first); the head of
\* the loop is reached again only from one of these sleeps, a sleep is
\* entered only from connect, write or close, and is followed by the head.
C17_OneWaitPerIteration ==
    /\ [](/\ (mpc = "connect_backoff" =>
                mtimer = RetryMs /\ outcome = "connect_fail" /\ sock = "created")
          /\ (mpc = "write_backoff" =>
                mtimer = RetryMs /\ outcome = "write_fail" /\ sock = "closed")
          /\ (mpc = "wait_next" =>
                /\ mtimer = NextRequestMs
                /\ outcome \in {"remote_close", "full", "read_err"}
                /\ sock = "closed")
          /\ (mpc \in LoopPcs \ WaitPcs => mtimer = 0))
    /\ [][ /\ (live' > live => mpc = "loop_head" /\ mpc' = "connect")
           /\ (mpc \in LoopPcs /\ mpc' = "loop_head" /\ mpc' # mpc => mpc \in WaitPcs)
           /\ (mpc \in WaitPcs /\ mpc' # mpc => mpc' = "loop_head" /\ live' = live - 1)
           /\ (mpc' \in WaitPcs /\ mpc' # mpc =>
                 mpc = (CASE mpc' = "connect_backoff" -> "connect"
                          [] mpc' = "write_backoff" -> "write"
                          [] mpc' = "wait_next" -> "close")) ]_vars

\* a read error ended the read phase: the endpoint is closed, the 10-second
\* wait runs
C17_Witness ==
    /\ mpc = "wait_next"
    /\ outcome = "read_err"
    /\ mtimer = NextRequestMs
    /\ sock = "closed"

\* C18: the read loop terminates. A non-empty read strictly increases
\* total_read, and the loop goes on only while total_read < capacity - 1, so
\* total_read, which starts at 0, counts at least the reads made and at most
\* capacity - 1 reads happen; the loop is left on the first zero-length read,
\* on the first read error, and as soon as total_read >= capacity - 1, and in
\* no other way; every iteration that reads reaches the report.
C18_ReadLoopTerminates ==
    /\ [][ /\ (mpc' = "read" /\ mpc # "read" => total_read' = 0)
           /\ (mpc = "read" /\ mpc' = "read" =>
                 /\ total_read' >= total_read + 1
                 /\ total_read' < BufLen - 1
                 /\ outcome' = "sent")
           /\ (mpc = "read" /\ mpc' # "read" =>
                 /\ mpc' = "report"
                 /\ \/ outcome' = "full" /\ total_read' > total_read
                          /\ total_read' >= BufLen - 1
                    \/ outcome' \in {"remote_close", "read_err"}
                          /\ total_read' = total_read) ]_vars
    /\ (mpc = "read") ~> (mpc = "report")

\* the loop ran as long as it can without filling the buffer, then a read
\* failed
C18_Witness ==
    /\ mpc = "report"
    /\ outcome = "read_err"
    /\ total_read = BufLen - 2

\* C19: read is never called with an empty slice: whenever a read is issued
\* total_read <= capacity - 2, so buf[total_read..] has at least 2 bytes; a
\* zero-length result therefore comes with total_read <= capacity - 2 (remote
\* close), and a full buffer is never reported as a remote close.
C19_ReadNeverEmptySlice ==
    /\ (mpc = "read" => total_read <= BufLen - 2 /\ BufLen - total_read >= 2)
    /\ (outcome = "remote_close" => total_read <= BufLen - 2)
    /\ (outcome = "full" => total_read >= BufLen - 1)
    /\ (mpc = "report" /\ total_read >= BufLen - 1 => outcome = "full")

\* the server closed when only two bytes of space were left
C19_Witness ==
    /\ mpc = "report"
    /\ outcome = "remote_close"
    /\ total_read = BufLen - 2

\* the positions of main between the construction of an endpoint and its close
StepPcs == {"connect", "write", "read", "report", "close"}

\* C20: in one iteration the steps come in the order construct, connect,
\* write, read, report, close, on one endpoint: the write is issued only after
\* the connect succeeded, the read only after the write succeeded, the report
\* only after the read loop, the close only after the report; a failed connect
\* or write leads to its wait and to the next iteration, with no read and no
\* report.
C20_StepsInOrder ==
    /\ [](/\ (mpc = "connect" => sock = "created")
          /\ (mpc = "write" => sock = "connected" /\ outcome = "connected")
          /\ (mpc = "read" => sock = "connected" /\ outcome = "sent")
          /\ (mpc \in {"report", "close"} =>
                sock = "connected" /\ outcome \in {"remote_close", "full", "read_err"})
          /\ (mpc \in {"connect", "write", "read", "report",
                       "connect_backoff", "write_backoff"} => reported = NoReport))
    /\ [][ /\ (mpc' # mpc /\ mpc' \in StepPcs =>
                 mpc = (CASE mpc' = "connect" -> "loop_head"
                          [] mpc' = "write" -> "connect"
                          [] mpc' = "read" -> "write"
                          [] mpc' = "report" -> "read"
                          [] mpc' = "close" -> "report"))
           /\ (mpc \in StepPcs /\ mpc' \in StepPcs => iter' = iter /\ live' = live)
           /\ (mpc = "connect" /\ mpc' # mpc =>
                 \/ mpc' = "write" /\ outcome' = "connected"
                 \/ mpc' = "connect_backoff" /\ outcome' = "connect_fail")
           /\ (mpc = "write" /\ mpc' # mpc =>
                 \/ mpc' = "read" /\ outcome' = "sent"
                 \/ mpc' = "write_backoff" /\ outcome' = "write_fail")
           /\ (mpc \in {"connect_backoff", "write_backoff"} /\ mpc' # mpc =>
                 mpc' = "loop_head" /\ reported' = NoReport)
           /\ (total_read' > total_read => mpc = "read")
           /\ (reported' # reported /\ reported' # NoReport => mpc = "report") ]_vars

\* the write failed: the endpoint is closed and the iteration ends with
\* nothing read and nothing reported
C20_Witness ==
    /\ mpc = "write_backoff"
    /\ outcome = "write_fail"
    /\ sock = "closed"
    /\ reported = NoReport
    /\ iter = MaxIter

====
